---- MODULE Spec2Model ----
(***************************************************************************)
(* Model of powersoftau/src/bin/beacon_constrained.rs: one run of the      *)
(* beacon contribution binary.  The state is main's locals, the standard   *)
(* output, the process outcome and the two files named on the command      *)
(* line; each action is one statement group of main between two points at  *)
(* which the process can fail or be interrupted.                           *)
(*                                                                         *)
(* Files and maps are sequences of cells.  A cell is a tagged tuple; the   *)
(* sizes of the file regions are scaled down (HashCells, NumElems, ...).   *)
(* An optional value is <<>> (none) or <<v>> (some v).                     *)
(***************************************************************************)
EXTENDS Integers, Sequences, FiniteSets, TLC

\* ------------------------------------------------------------------ sizes

\* const N: u64 = 10
N == 10
\* cur_hash: [u8; 32]
DigestLen == 32
\* seed = [0u32; 8]
SeedWords == 8
\* exitcode::USAGE
ExitUsage == 64
\* exit status of a Rust process whose main thread panicked
ExitPanic == 101

\* Scaled sizes of the file regions, in cells.
HashCells == 1
NumElems == 2
PubKeyCells == 1
ChunkElems == 1
\* The distinct well-formed challenge files the environment may hold.
ChallengeVariants == {1, 2}

UncompressedCells == 2
CompressedCells == 1

\* Bn256CeremonyParameters::ACCUMULATOR_BYTE_SIZE
ACCUMULATOR_BYTE_SIZE == HashCells + NumElems * UncompressedCells
\* Bn256CeremonyParameters::PUBLIC_KEY_SIZE
PUBLIC_KEY_SIZE == PubKeyCells
\* Bn256CeremonyParameters::CONTRIBUTION_BYTE_SIZE
CONTRIBUTION_BYTE_SIZE == HashCells + NumElems * CompressedCells + PUBLIC_KEY_SIZE

INPUT_IS_COMPRESSED == FALSE
COMPRESS_THE_OUTPUT == TRUE
CHECK_INPUT_CORRECTNESS == FALSE

Pow2(k) == 2 ^ k

\* ---------------------------------------------------------------- hashing

\* hex!("0000000000000000000a558a61ddc8ee4e488d647a747fe4dcc362fe2026c620")
BeaconSeed ==
    << 0, 0, 0, 0, 0, 0, 0, 0, 0, 10, 85, 138, 97, 221, 200, 238,
       78, 72, 141, 100, 122, 116, 127, 228, 220, 195, 98, 254, 32, 38, 198, 32 >>

\* Sha256::new(); h.input(&cur_hash); h.result(&mut cur_hash).  SHA-256 itself is
\* an external primitive: it is modelled by a fixed mixing function from 32 bytes
\* to 32 bytes that has no collision and no cycle along the chain checked here.
Sha256(x) ==
    LET mix == [j \in 1..DigestLen |->
                  (x[j] * 5 + x[(j % DigestLen) + 1] * 3
                     + x[((j + 6) % DigestLen) + 1] + j) % 256]
    IN  SubSeq(mix, 1, DigestLen)

\* BatchedAccumulator::calculate_hash(&map): the digest of the whole content of
\* the map, as a term (an ideal hash: equal digests only for equal content).
calculate_hash(map) == <<"blake2b", map>>

\* hash.as_slice(): the digest's bytes, HashCells cells.
HashSlice(h) == [j \in 1..HashCells |-> <<"hash", h, j>>]

\* ------------------------------------------------------------- environment

Paths == {"c", "r"}

\* std::env::args(): the program name and the operands.
ArgVectors ==
    { <<"beacon", "c">>,
      <<"beacon", "c", "r">>,
      <<"beacon", "c", "c">>,
      <<"beacon", "c", "r", "x">> }

NoFile == [exists |-> FALSE, content |-> <<>>]
File(content) == [exists |-> TRUE, content |-> content]

\* A well-formed uncompressed challenge: the previous hash, then both
\* coordinates of each element.
Challenge(v) ==
    [k \in 1..ACCUMULATOR_BYTE_SIZE |->
        IF k <= HashCells
        THEN <<"prev", v, k>>
        ELSE IF (k - HashCells) % UncompressedCells = 1
             THEN <<"x", v, (k - HashCells + UncompressedCells - 1) \div UncompressedCells>>
             ELSE <<"y", v, (k - HashCells + UncompressedCells - 1) \div UncompressedCells>>]

\* A challenge file of the wrong size: one cell short.
Truncated(v) == SubSeq(Challenge(v), 1, ACCUMULATOR_BYTE_SIZE - 1)

\* A challenge file of the wrong size: one cell too many.
Extended(v) == Append(Challenge(v), <<"prev", v, 0>>)

\* A file that was at the response path before the run.
OldResponse == << <<"old", 0, 1>> >>

FileSystems ==
    { [p \in Paths |-> IF p = "c" THEN c ELSE r] :
        c \in {NoFile, File(Truncated(1)), File(Extended(1))}
                \cup {File(Challenge(v)) : v \in ChallengeVariants},
        r \in {NoFile, File(OldResponse)} }

\* ------------------------------------------------------------------- state

VARIABLES
    pc,             \* the statement of main the process is at
    args,           \* std::env::args()
    fs,             \* the files by path, as a read of the file sees them
    fs0,            \* the files as they were when the process started
    synced,         \* the response content last flushed to the device: <<content>>
    stdout,         \* the lines printed so far
    stderr,         \* the panic messages printed so far
    exit_code,      \* <<>> while running or killed, <<code>> once exited
    i,              \* the beacon loop's index
    cur_hash,       \* the beacon chain value
    rng,            \* the ChaChaRng: <<generator>>
    reader,         \* the opened challenge: <<path>>
    readable_map,   \* the shared read-only map of the challenge: <<path>>
    writer,         \* the created response: <<path>>
    writable_map,   \* the shared writable map of the response: <<path>>
    current_accumulator_hash,
    pubkey,
    privkey,
    chunk,          \* transform: the number of chunks written
    output_readonly,
    contribution_hash,
    map_writes,     \* every write made through the response map, in order
    calls           \* how many times keypair and transform were invoked

vars ==
    << pc, args, fs, fs0, synced, stdout, stderr, exit_code, i, cur_hash, rng, reader,
       readable_map, writer, writable_map, current_accumulator_hash, pubkey, privkey,
       chunk, output_readonly, contribution_hash, map_writes, calls >>

\* The groups of variables an action may leave alone.
env == << args, fs0 >>
beacon == << i, cur_hash >>
files == << fs, synced, map_writes >>
handles == << reader, readable_map, writer, writable_map, output_readonly >>
hashes == << current_accumulator_hash, contribution_hash >>
keys == << pubkey, privkey, calls >>

Line(tag, idx, val) == [tag |-> tag, idx |-> idx, val |-> val]

\* let challenge_filename = &args[1]; let response_filename = &args[2];
challenge_filename == args[2]
response_filename == args[3]

\* The content a map of the file at `path` shows.
Mapped(map) == fs[map[1]].content

Init ==
    /\ pc = "args"
    /\ args \in ArgVectors
    /\ fs \in FileSystems
    /\ fs0 = fs
    /\ synced = <<>>
    /\ stdout = <<>>
    /\ stderr = <<>>
    /\ exit_code = <<>>
    /\ i = 0
    /\ cur_hash = BeaconSeed
    /\ rng = <<>>
    /\ reader = <<>>
    /\ readable_map = <<>>
    /\ writer = <<>>
    /\ writable_map = <<>>
    /\ current_accumulator_hash = <<>>
    /\ pubkey = <<>>
    /\ privkey = <<>>
    /\ chunk = 0
    /\ output_readonly = <<>>
    /\ contribution_hash = <<>>
    /\ map_writes = <<>>
    /\ calls = [keypair |-> 0, transform |-> 0]

\* .expect(msg) on an Err, or panic!(msg): the message goes to stderr and the
\* stack unwinds; main's locals are still alive while the message is printed.
Panic(msg) ==
    /\ stderr' = Append(stderr, msg)
    /\ pc' = "unwind"

\* The locals of main go out of scope: at the end of main, or while unwinding.
DropLocals ==
    /\ rng' = <<>>
    /\ reader' = <<>>
    /\ readable_map' = <<>>
    /\ writer' = <<>>
    /\ writable_map' = <<>>
    /\ output_readonly' = <<>>
    /\ current_accumulator_hash' = <<>>
    /\ contribution_hash' = <<>>
    /\ pubkey' = <<>>
    /\ privkey' = <<>>

\* The unwinding after a panic: every local is dropped, the process exits 101.
Unwind ==
    /\ pc = "unwind"
    /\ DropLocals
    /\ exit_code' = <<ExitPanic>>
    /\ pc' = "exited"
    /\ UNCHANGED << env, beacon, files, stdout, stderr, chunk, calls >>

\* The process is killed from outside: its memory is gone, the files stay.
Kill ==
    /\ pc \notin {"exited", "killed"}
    /\ DropLocals
    /\ pc' = "killed"
    /\ UNCHANGED << env, beacon, files, stdout, stderr, exit_code, chunk, calls >>

\* ----------------------------------------------------------- the beacon RNG

\* if args.len() != 3 { println!(usage); exit(USAGE) }; the two banner lines.
CheckArgs ==
    /\ pc = "args"
    /\ IF Len(args) # 3
       THEN /\ stdout' = Append(stdout, Line("usage", 0, <<>>))
            /\ exit_code' = <<ExitUsage>>
            /\ pc' = "exited"
       ELSE /\ stdout' = stdout \o << Line("banner", 1, <<>>), Line("banner", 2, <<>>) >>
            /\ exit_code' = exit_code
            /\ pc' = "beacon"
    /\ UNCHANGED << env, beacon, files, handles, hashes, keys, rng, stderr, chunk >>

\* Mutant: the loop stops one iteration early.
BeaconIterations_short == Pow2(N) - 1

\* for i in 0..(1u64 << N)
BeaconIterations == Pow2(N)

\* i % (1u64 << (N - 10)) == 0
IsCheckpoint(k) == k % Pow2(N - 10) = 0

\* Mutant: the checkpoint line is printed after the iteration's hash.
CheckpointValue_after(before, after) == after

\* The value the checkpoint line shows: cur_hash as it is when the line is
\* printed, which is before this iteration's hash.
CheckpointValue(before, after) == before

\* One iteration of the loop at index k: the checkpoint line is printed, then
\* cur_hash := Sha256(cur_hash).
BeaconStep(k, st) ==
    [i        |-> k + 1,
     cur_hash |-> Sha256(st.cur_hash),
     out      |-> IF IsCheckpoint(k)
                  THEN Append(st.out,
                              Line("checkpoint", k,
                                   CheckpointValue(st.cur_hash, Sha256(st.cur_hash))))
                  ELSE st.out]

\* The iterations lo, lo + 1, ..., hi - 1 of the loop, in this order, from the
\* state st.  The range is split in two to keep the evaluation shallow; the
\* test on the index makes the first half be evaluated before the second.
RECURSIVE BeaconLoop(_, _, _)
BeaconLoop(lo, hi, st) ==
    IF lo >= hi THEN st
    ELSE IF hi = lo + 1 THEN BeaconStep(lo, st)
    ELSE LET mid == lo + (hi - lo) \div 2
             half == BeaconLoop(lo, mid, st)
         IN  IF half.i = mid THEN BeaconLoop(mid, hi, half) ELSE half

\* Mutant: the word is read little-endian.
ReadU32BE_little(digest) ==
    IF Len(digest) < 4
    THEN [ok |-> FALSE, word |-> <<0, 0>>, rest |-> digest]
    ELSE [ok |-> TRUE,
          word |-> << digest[4] * 256 + digest[3], digest[2] * 256 + digest[1] >>,
          rest |-> SubSeq(digest, 5, Len(digest))]

\* digest.read_u32::<BigEndian>() on a slice: the word of its first four bytes
\* (as two 16-bit halves, most significant first) and the rest of the slice;
\* an error when fewer than four bytes are left.
ReadU32BE(digest) ==
    IF Len(digest) < 4
    THEN [ok |-> FALSE, word |-> <<0, 0>>, rest |-> digest]
    ELSE [ok |-> TRUE,
          word |-> << digest[1] * 256 + digest[2], digest[3] * 256 + digest[4] >>,
          rest |-> SubSeq(digest, 5, Len(digest))]

\* for s in &mut seed { *s = digest.read_u32::<BigEndian>().expect(..) }: the seed
\* after `todo` more words are read from `digest`, or <<>> when a read fails.
RECURSIVE FillSeed(_, _, _)
FillSeed(seed, digest, todo) ==
    IF todo = 0
    THEN <<seed>>
    ELSE LET r == ReadU32BE(digest)
         IN  IF r.ok THEN FillSeed(Append(seed, r.word), r.rest, todo - 1) ELSE <<>>

\* let mut digest = &cur_hash[..]: the slice the seed is read from, given the
\* chain's final value and its first.
SeedDigest(final, first) == final

\* ChaChaRng::from_seed(&seed): the generator, by its seed and its position.
ChaChaRng(seed) == [seed |-> seed, pos |-> 0]

\* let mut rng = { .. }: the loop, the final line, the seed words, the
\* generator; println!("Done creating a beacon RNG").  The block computes from
\* its own constants and only prints.
BeaconRng ==
    /\ pc = "beacon"
    /\ LET end == BeaconLoop(i, BeaconIterations,
                             [i |-> i, cur_hash |-> cur_hash, out |-> <<>>])
           seed == FillSeed(<<>>, SeedDigest(end.cur_hash, BeaconSeed), SeedWords)
       IN  /\ i' = end.i
           /\ cur_hash' = end.cur_hash
           /\ IF seed = <<>>
              THEN /\ stdout' = stdout \o end.out \o << Line("final", 0, end.cur_hash) >>
                   /\ rng' = rng
                   /\ Panic("digest is large enough for this to work")
              ELSE /\ stdout' = stdout \o end.out \o << Line("final", 0, end.cur_hash),
                                                        Line("rng_done", 0, <<>>) >>
                   /\ rng' = << ChaChaRng(seed[1]) >>
                   /\ stderr' = stderr
                   /\ pc' = "open_challenge"
    /\ UNCHANGED << env, files, handles, hashes, keys, exit_code, chunk >>

\* ------------------------------------------------------- the challenge file

\* OpenOptions::new().read(true).open(challenge_filename).expect(..)
OpenChallenge ==
    /\ pc = "open_challenge"
    /\ IF fs[challenge_filename].exists
       THEN /\ reader' = <<challenge_filename>>
            /\ stderr' = stderr
            /\ pc' = "metadata"
       ELSE /\ reader' = reader
            /\ Panic("unable open challenge file in this directory")
    /\ UNCHANGED << env, beacon, files, hashes, keys, rng, stdout, exit_code, chunk,
                    readable_map, writer, writable_map, output_readonly >>

\* match INPUT_IS_COMPRESSED { Yes => CONTRIBUTION_BYTE_SIZE, No => ACCUMULATOR_BYTE_SIZE }
expected_challenge_length ==
    IF INPUT_IS_COMPRESSED THEN CONTRIBUTION_BYTE_SIZE ELSE ACCUMULATOR_BYTE_SIZE

\* Mutant: only a file that is too short is refused.
LengthMismatch_shorter(len) == len < expected_challenge_length

\* metadata.len() != (expected_challenge_length as u64)
LengthMismatch(len) == len # expected_challenge_length

\* reader.metadata(); if the length is not the expected one, panic!(..)
CheckLength ==
    /\ pc = "metadata"
    /\ IF LengthMismatch(Len(fs[reader[1]].content))
       THEN Panic("The size of challenge file should be ..., but it's ...")
       ELSE /\ stderr' = stderr
            /\ pc' = "map_challenge"
    /\ UNCHANGED << env, beacon, files, handles, hashes, keys, rng, stdout, exit_code,
                    chunk >>

\* MmapOptions::new().map(&reader).expect(..): the map, or an error of the system.
MapChallenge ==
    /\ pc = "map_challenge"
    /\ \/ /\ readable_map' = reader
          /\ stderr' = stderr
          /\ pc' = "create_response"
       \/ /\ readable_map' = readable_map
          /\ Panic("unable to create a memory map for input")
    /\ UNCHANGED << env, beacon, files, hashes, keys, rng, stdout, exit_code, chunk,
                    reader, writer, writable_map, output_readonly >>

\* -------------------------------------------------------- the response file

\* Mutant: create(true) in place of create_new(true), an existing file is opened.
CreateFails_never(file) == FALSE

\* create_new(true): the open fails when the path exists.
CreateFails(file) == file.exists

\* OpenOptions::new().read(true).write(true).create_new(true).open(response_filename)
CreateResponse ==
    /\ pc = "create_response"
    /\ IF CreateFails(fs[response_filename])
       THEN /\ UNCHANGED << fs, writer >>
            /\ Panic("unable to create response file in this directory")
       ELSE /\ fs' = [fs EXCEPT ![response_filename] = File(<<>>)]
            /\ writer' = <<response_filename>>
            /\ stderr' = stderr
            /\ pc' = "set_len"
    /\ UNCHANGED << env, beacon, synced, map_writes, hashes, keys, rng, stdout,
                    exit_code, chunk, reader, readable_map, writable_map,
                    output_readonly >>

\* Mutant: the length of an uncompressed output is taken.
required_output_length_uncompressed == ACCUMULATOR_BYTE_SIZE + PUBLIC_KEY_SIZE

\* match COMPRESS_THE_OUTPUT { Yes => CONTRIBUTION_BYTE_SIZE,
\*                             No => ACCUMULATOR_BYTE_SIZE + PUBLIC_KEY_SIZE }
required_output_length ==
    IF COMPRESS_THE_OUTPUT
    THEN CONTRIBUTION_BYTE_SIZE
    ELSE ACCUMULATOR_BYTE_SIZE + PUBLIC_KEY_SIZE

ZeroCell == <<"zero", 0, 0>>

\* File::set_len(len): the content cut or extended with zeroes to len.
SetLenContent(content, len) ==
    [k \in 1..len |-> IF k <= Len(content) THEN content[k] ELSE ZeroCell]

\* writer.set_len(required_output_length as u64).expect(..)
SetLen ==
    /\ pc = "set_len"
    /\ \/ /\ fs' = [fs EXCEPT ![writer[1]].content =
                        SetLenContent(@, required_output_length)]
          /\ stderr' = stderr
          /\ pc' = "map_response"
       \/ /\ fs' = fs
          /\ Panic("must make output file large enough")
    /\ UNCHANGED << env, beacon, synced, map_writes, handles, hashes, keys, rng, stdout,
                    exit_code, chunk >>

\* MmapOptions::new().map_mut(&writer).expect(..)
MapResponse ==
    /\ pc = "map_response"
    /\ \/ /\ writable_map' = writer
          /\ stderr' = stderr
          /\ pc' = "hash_challenge"
       \/ /\ writable_map' = writable_map
          /\ Panic("unable to create a memory map for output")
    /\ UNCHANGED << env, beacon, files, hashes, keys, rng, stdout, exit_code, chunk,
                    reader, readable_map, writer, output_readonly >>

\* Mutant: the hash is taken over the response map.
HashedMap_response == writable_map

\* The map calculate_hash is given for the challenge's hash.
HashedMap == readable_map

\* println!("Calculating previous contribution hash...");
\* current_accumulator_hash = calculate_hash(&readable_map); the hash is printed.
HashChallenge ==
    /\ pc = "hash_challenge"
    /\ current_accumulator_hash' = << calculate_hash(Mapped(HashedMap)) >>
    /\ stdout' = stdout \o << Line("calculating", 0, <<>>),
                              Line("on_top_of", 0, calculate_hash(Mapped(HashedMap))) >>
    /\ pc' = "write_hash"
    /\ UNCHANGED << env, beacon, files, handles, keys, rng, stderr, exit_code, chunk,
                    contribution_hash >>

\* A write of `data` through a map at cell offset `off`: the content after it.
WriteAt(content, off, data) ==
    [k \in 1..Len(content) |->
        IF k > off /\ k <= off + Len(data) THEN data[k - off] ELSE content[k]]

\* Mutant: the hash is written after the hash region.
HashOffset_body == HashCells

\* The offset of (&mut writable_map[0..]).
HashOffset == 0

\* (&mut writable_map[0..]).write_all(current_accumulator_hash.as_slice()).expect(..)
WriteHash ==
    /\ pc = "write_hash"
    /\ LET data == HashSlice(current_accumulator_hash[1])
           path == writable_map[1]
       IN  IF HashOffset + Len(data) > Len(fs[path].content)
           THEN /\ UNCHANGED << fs, map_writes >>
                /\ Panic("unable to write a challenge hash to mmap")
           ELSE /\ fs' = [fs EXCEPT ![path].content = WriteAt(@, HashOffset, data)]
                /\ map_writes' = Append(map_writes,
                                        [what |-> "hash", off |-> HashOffset, data |-> data])
                /\ stderr' = stderr
                /\ pc' = "flush_hash"
    /\ UNCHANGED << env, beacon, synced, handles, hashes, keys, rng, stdout, exit_code,
                    chunk >>

\* writable_map.flush().expect(..)
FlushHash ==
    /\ pc = "flush_hash"
    /\ \/ /\ synced' = << Mapped(writable_map) >>
          /\ stderr' = stderr
          /\ pc' = "keypair"
       \/ /\ synced' = synced
          /\ Panic("unable to write hash to response file")
    /\ UNCHANGED << env, beacon, fs, map_writes, handles, hashes, keys, rng, stdout,
                    exit_code, chunk >>

\* ------------------------------------------------------------ contribution

\* keypair(rng, digest): the secrets are the generator's next draws; the public
\* key is made from those secrets and carries proofs bound to the digest.
keypair(gen, digest) ==
    LET secret == [seed |-> gen.seed, first_draw |-> gen.pos]
    IN  [pubkey  |-> [of |-> secret, transcript |-> digest],
         privkey |-> secret,
         rng     |-> [gen EXCEPT !.pos = @ + 6]]

\* The digest main passes to keypair: current_accumulator_hash.as_ref().
KeypairDigest == current_accumulator_hash[1]

\* let (pubkey, privkey) = keypair(&mut rng, current_accumulator_hash.as_ref());
Keypair ==
    /\ pc = "keypair"
    /\ LET kp == keypair(rng[1], KeypairDigest)
       IN  /\ pubkey' = <<kp.pubkey>>
           /\ privkey' = <<kp.privkey>>
           /\ rng' = <<kp.rng>>
    /\ calls' = [calls EXCEPT !.keypair = @ + 1]
    /\ pc' = "transform_call"
    /\ UNCHANGED << env, beacon, files, handles, hashes, stdout, stderr, exit_code,
                    chunk >>

\* println!("Computing and writing your contribution, ..."); transform is entered.
TransformCall ==
    /\ pc = "transform_call"
    /\ stdout' = Append(stdout, Line("computing", 0, <<>>))
    /\ calls' = [calls EXCEPT !.transform = @ + 1]
    /\ chunk' = 0
    /\ pc' = "transform"
    /\ UNCHANGED << env, beacon, files, handles, hashes, rng, pubkey, privkey, stderr,
                    exit_code >>

InCells == IF INPUT_IS_COMPRESSED THEN CompressedCells ELSE UncompressedCells
OutCells == IF COMPRESS_THE_OUTPUT THEN CompressedCells ELSE UncompressedCells

NumChunks == (NumElems + ChunkElems - 1) \div ChunkElems
ChunkFirst(c) == (c - 1) * ChunkElems + 1
ChunkLast(c) == IF c * ChunkElems < NumElems THEN c * ChunkElems ELSE NumElems

\* The encoding of element idx in the input.
InputElem(input, idx) ==
    SubSeq(input, HashCells + (idx - 1) * InCells + 1, HashCells + idx * InCells)

\* The encoding of element idx of the output: the input element raised to the
\* power the key and the index give.
OutputElem(input, idx, key) ==
    [j \in 1..OutCells |->
        <<"elem", [from |-> InputElem(input, idx), idx |-> idx, key |-> key], j>>]

RECURSIVE OutputRange(_, _, _, _)
OutputRange(input, first, last, key) ==
    IF first > last
    THEN <<>>
    ELSE OutputElem(input, first, key) \o OutputRange(input, first + 1, last, key)

\* The key main passes to transform: &privkey.
TransformKey == privkey[1]

\* transform, one chunk: the chunk's input range is read from the input map,
\* transformed, written to its range of the output map and flushed; or the
\* chunk fails and transform returns the error, which .expect turns into a panic.
TransformChunk ==
    /\ pc = "transform"
    /\ chunk < NumChunks
    /\ \/ LET c == chunk + 1
              path == writable_map[1]
              off == HashCells + (ChunkFirst(c) - 1) * OutCells
              data == OutputRange(Mapped(readable_map), ChunkFirst(c), ChunkLast(c),
                                  TransformKey)
          IN  /\ fs' = [fs EXCEPT ![path].content = WriteAt(@, off, data)]
              /\ synced' = << WriteAt(fs[path].content, off, data) >>
              /\ map_writes' = Append(map_writes,
                                      [what |-> "chunk", off |-> off, data |-> data])
              /\ chunk' = c
              /\ stderr' = stderr
              /\ pc' = "transform"
       \/ /\ UNCHANGED << files, chunk >>
          /\ Panic("must transform with the key")
    /\ UNCHANGED << env, beacon, handles, hashes, keys, rng, stdout, exit_code >>

\* Mutant: main goes on to the public key before transform has written its
\* last chunk.
TransformReturn_early ==
    /\ pc = "transform"
    /\ chunk >= NumChunks - 1
    /\ stdout' = Append(stdout, Line("finishing", 0, <<>>))
    /\ pc' = "write_pubkey"
    /\ UNCHANGED << env, beacon, files, handles, hashes, keys, rng, stderr, exit_code,
                    chunk >>

\* transform returns Ok; println!("Finishing writing your contribution ...").
TransformReturn ==
    /\ pc = "transform"
    /\ chunk = NumChunks
    /\ stdout' = Append(stdout, Line("finishing", 0, <<>>))
    /\ pc' = "write_pubkey"
    /\ UNCHANGED << env, beacon, files, handles, hashes, keys, rng, stderr, exit_code,
                    chunk >>

\* The encoding of the public key.
PubKeySlice(pk) == [j \in 1..PUBLIC_KEY_SIZE |-> <<"pk", pk, j>>]

\* Where PublicKey::write puts the key: after the body of the output.
PubKeyOffset == HashCells + NumElems * OutCells

\* The key main writes: pubkey.
WrittenKey == pubkey[1]

\* pubkey.write(&mut writable_map, COMPRESS_THE_OUTPUT).expect(..)
WritePubkey ==
    /\ pc = "write_pubkey"
    /\ \/ LET path == writable_map[1]
              data == PubKeySlice(WrittenKey)
          IN  /\ fs' = [fs EXCEPT ![path].content = WriteAt(@, PubKeyOffset, data)]
              /\ synced' = << WriteAt(fs[path].content, PubKeyOffset, data) >>
              /\ map_writes' = Append(map_writes,
                                      [what |-> "pubkey", off |-> PubKeyOffset, data |-> data])
              /\ stderr' = stderr
              /\ pc' = "make_read_only"
       \/ /\ UNCHANGED files
          /\ Panic("unable to write public key")
    /\ UNCHANGED << env, beacon, handles, hashes, keys, rng, stdout, exit_code, chunk >>

\* let output_readonly = writable_map.make_read_only().expect(..)
MakeReadOnly ==
    /\ pc = "make_read_only"
    /\ \/ /\ output_readonly' = writable_map
          /\ writable_map' = <<>>
          /\ stderr' = stderr
          /\ pc' = "hash_response"
       \/ /\ UNCHANGED << output_readonly, writable_map >>
          /\ Panic("must make a map readonly")
    /\ UNCHANGED << env, beacon, files, hashes, keys, rng, stdout, exit_code, chunk,
                    reader, readable_map, writer >>

\* let contribution_hash = calculate_hash(&output_readonly);
HashResponse ==
    /\ pc = "hash_response"
    /\ contribution_hash' = << calculate_hash(Mapped(output_readonly)) >>
    /\ pc' = "print_result"
    /\ UNCHANGED << env, beacon, files, handles, keys, rng, stdout, stderr, exit_code,
                    chunk, current_accumulator_hash >>

\* The closing lines are printed and main returns: its locals are dropped.
PrintResult ==
    /\ pc = "print_result"
    /\ stdout' = stdout \o << Line("done", 0, <<>>),
                              Line("response_hash", 0, contribution_hash[1]),
                              Line("thanks", 0, <<>>) >>
    /\ DropLocals
    /\ exit_code' = <<0>>
    /\ pc' = "exited"
    /\ UNCHANGED << env, beacon, files, stderr, chunk, calls >>

\* A step of the process itself.
Run ==
    \/ CheckArgs
    \/ BeaconRng
    \/ OpenChallenge
    \/ CheckLength
    \/ MapChallenge
    \/ CreateResponse
    \/ SetLen
    \/ MapResponse
    \/ HashChallenge
    \/ WriteHash
    \/ FlushHash
    \/ Keypair
    \/ TransformCall
    \/ TransformChunk
    \/ TransformReturn
    \/ WritePubkey
    \/ MakeReadOnly
    \/ HashResponse
    \/ PrintResult
    \/ Unwind

Next ==
    \/ Run
    \/ Kill

Spec == Init /\ [][Next]_vars

\* ------------------------------------------------------ reference values

\* <<Hash^1(x), ..., Hash^k(x)>>, by halving.
RECURSIVE HashPowers(_, _)
HashPowers(x, k) ==
    IF k = 0 THEN <<>>
    ELSE IF k = 1 THEN << Sha256(x) >>
    ELSE LET left == HashPowers(x, k \div 2)
         IN  left \o HashPowers(left[Len(left)], k - k \div 2)

\* HashChain[k + 1] = Hash^k(BeaconSeed), for k in 0..1024.
HashChain == <<BeaconSeed>> \o HashPowers(BeaconSeed, 1024)

\* The lines of stdout with the given tag, in order.
Lines(tag) == SelectSeq(stdout, LAMBDA l : l.tag = tag)

\* The position in stdout of a line with the tag, 0 when there is none.
Position(tag) ==
    IF \E k \in 1..Len(stdout) : stdout[k].tag = tag
    THEN CHOOSE k \in 1..Len(stdout) : stdout[k].tag = tag
    ELSE 0

\* The writes made through the response map of the given kind, in order.
Writes(what) == SelectSeq(map_writes, LAMBDA w : w.what = what)

\* This run was given two paths.
TwoPaths == Len(args) = 3

\* The response file is one this run created.
ResponseCreated ==
    /\ TwoPaths
    /\ ~fs0[args[3]].exists
    /\ fs[args[3]].exists

\* The content of the challenge file as the run found it.
ChallengeContent == fs0[args[2]].content

\* The big-endian words of a 32-byte digest, each as its two 16-bit halves.
BigEndianWords(d) ==
    [k \in 1..8 |-> << d[4 * k - 3] * 256 + d[4 * k - 2], d[4 * k - 1] * 256 + d[4 * k] >>]

\* C3: the loop applies the hash exactly 1024 times: it ends with i = 1024 and
\* the final digest printed and kept is Hash^1024(seed) (and not Hash^1023 or
\* Hash^1025 of it), a fixed value whatever the arguments and the files are;
\* so is every checkpoint printed.
C3_ExactIterations ==
    /\ i \in {0, 1024}
    /\ cur_hash = HashChain[i + 1]
    /\ pc \notin {"args", "beacon", "killed"} /\ TwoPaths => i = 1024
    /\ i = 1024 =>
          /\ Len(Lines("final")) = 1
          /\ Lines("final")[1].val = HashChain[1025]
          /\ Lines("final")[1].val # HashChain[1024]
          /\ Lines("final")[1].val # Sha256(HashChain[1025])
          /\ Lines("checkpoint") =
                [k \in 1..1024 |-> Line("checkpoint", k - 1, HashChain[k])]
    /\ i = 0 => Lines("final") = <<>> /\ Lines("checkpoint") = <<>>

\* C3 witness: a run that finished the derivation and went on to exit normally.
C3_Witness ==
    /\ exit_code = <<0>>
    /\ Len(Lines("final")) = 1
    /\ cur_hash = HashChain[1025]

\* C4: the checkpoint lines are labelled 0, 1 * 2^(N-10), 2 * 2^(N-10), ... in
\* this order, the line labelled i shows Hash^i(seed) (the first one the seed
\* itself), there are exactly 1024 of them once the loop is over, none of them
\* shows the final digest Hash^1024(seed), and the final digest is printed
\* once, after all of them.
C4_Checkpoints ==
    LET cps == Lines("checkpoint")
        fin == Lines("final")
        pf == Position("final")
    IN  /\ \A k \in 1..Len(cps) :
              /\ cps[k].idx = (k - 1) * Pow2(N - 10)
              /\ cps[k].idx % Pow2(N - 10) = 0
              /\ cps[k].idx < Pow2(N)
              /\ k > 1 => cps[k - 1].idx < cps[k].idx
              /\ cps[k].val = HashChain[cps[k].idx + 1]
              /\ cps[k].val # HashChain[Pow2(N) + 1]
        /\ Len(cps) > 0 => cps[1].idx = 0 /\ cps[1].val = BeaconSeed
        /\ Len(cps) \in {0, 1024}
        /\ pc \notin {"args", "beacon", "killed"} /\ TwoPaths => Len(cps) = 1024
        /\ Len(fin) <= 1
        /\ Len(fin) = 1 <=> Len(cps) = 1024
        /\ Len(fin) = 1 =>
              /\ fin[1].val = HashChain[Pow2(N) + 1]
              /\ \A k \in 1..Len(stdout) :
                    stdout[k].tag = "checkpoint" => k < pf

\* C4 witness: the loop is over, all checkpoints and the final digest are out.
C4_Witness ==
    /\ pc = "open_challenge"
    /\ Len(Lines("checkpoint")) = 1024
    /\ Len(Lines("final")) = 1

\* C5: the generator's seed is the eight big-endian words of the final digest
\* Hash^1024(seed), word k from bytes 4k .. 4k+3 (counted from 0), whatever the
\* arguments and the files are, and reading the words never fails.
C5_SeedFromFinalDigest ==
    /\ rng # <<>> =>
          /\ Len(rng[1].seed) = 8
          /\ rng[1].seed = BigEndianWords(HashChain[1025])
          /\ Len(Lines("final")) = 1
          /\ rng[1].seed = BigEndianWords(Lines("final")[1].val)
    /\ \A k \in 1..Len(stderr) : stderr[k] # "digest is large enough for this to work"
    /\ pc \in {"open_challenge", "metadata", "map_challenge", "create_response"} => rng # <<>>

\* C5 witness: the generator exists and its seed words are not all alike.
C5_Witness ==
    /\ rng # <<>>
    /\ pc = "keypair"
    /\ rng[1].seed[1] # rng[1].seed[2]

\* The generator's seed and the key the contribution must be made with.
BeaconKey == [seed |-> BigEndianWords(HashChain[1025]), first_draw |-> 0]

\* The kinds of the writes made through the response map, in order.
WriteKinds == [k \in 1..Len(map_writes) |-> map_writes[k].what]

\* The kinds of the writes of a complete contribution.
CompleteKinds ==
    <<"hash">> \o [k \in 1..NumChunks |-> "chunk"] \o <<"pubkey">>

\* C1 (as claimed): once transform has returned, with Ok or with an error, the
\* private key is gone: it does not exist while the public key is written, the
\* map is made read-only, the response is hashed and the hash is printed, nor
\* while the panic message of a failed transform is printed.
C1_KeyDestroyedAfterTransform ==
    /\ pc \in {"write_pubkey", "make_read_only", "hash_response", "print_result"}
          => privkey = <<>>
    /\ pc = "unwind" /\ calls.transform > 0 => privkey = <<>>

\* C2 (as claimed): the output of a successful run shows the challenge's hash
\* first, then the generator derived, then the transform, then the response's
\* hash.
C2_BeaconAfterChallengeHash ==
    exit_code = <<0>> =>
          /\ 0 < Position("on_top_of")
          /\ Position("on_top_of") < Position("rng_done")
          /\ Position("rng_done") < Position("computing")
          /\ Position("computing") < Position("finishing")
          /\ Position("finishing") < Position("response_hash")

\* C2 (amended): the generator is derived first, then the challenge is opened
\* and mapped, then hashed, then the keypair is made with that hash, then
\* transform writes all its chunks, then the public key is written, and the
\* response is hashed last, over the content the file ends with.
C2_Order ==
    /\ reader # <<>> \/ readable_map # <<>> => rng # <<>>
    /\ current_accumulator_hash # <<>> => readable_map # <<>>
    /\ calls.keypair > 0 =>
          /\ 0 < Position("rng_done")
          /\ Position("rng_done") < Position("on_top_of")
    /\ pubkey # <<>> =>
          /\ current_accumulator_hash # <<>>
          /\ pubkey[1].transcript = current_accumulator_hash[1]
    /\ calls.transform > 0 => calls.keypair = 1
    /\ Writes("chunk") # <<>> => calls.transform = 1
    /\ Writes("pubkey") # <<>> => WriteKinds = CompleteKinds
    /\ contribution_hash # <<>> =>
          /\ WriteKinds = CompleteKinds
          /\ contribution_hash[1] = calculate_hash(fs[args[3]].content)
    /\ exit_code = <<0>> =>
          /\ 0 < Position("rng_done")
          /\ Position("rng_done") < Position("calculating")
          /\ Position("calculating") < Position("computing")
          /\ Position("computing") < Position("finishing")
          /\ Position("finishing") < Position("response_hash")
          /\ WriteKinds = CompleteKinds
          /\ stdout[Position("response_hash")].val = calculate_hash(fs[args[3]].content)
          /\ \A k \in 1..Len(fs[args[3]].content) : fs[args[3]].content[k] # ZeroCell

\* C2 witness: a run that succeeded.
C2_Witness ==
    /\ exit_code = <<0>>
    /\ WriteKinds = CompleteKinds
    /\ Position("response_hash") # 0

\* The challenge file exists and has the wrong length.
WrongLength ==
    /\ TwoPaths
    /\ fs0[args[2]].exists
    /\ Len(ChallengeContent) # ACCUMULATOR_BYTE_SIZE

\* C6: when the challenge's length is not ACCUMULATOR_BYTE_SIZE the run never
\* gets past the length check: the challenge is not mapped or hashed, no file
\* is created or changed, keypair and transform are not invoked, and the
\* process exits with the panic status.
C6_LengthCheckedFirst ==
    WrongLength =>
        /\ pc \in {"args", "beacon", "open_challenge", "metadata", "unwind", "exited",
                   "killed"}
        /\ readable_map = <<>>
        /\ current_accumulator_hash = <<>>
        /\ writer = <<>>
        /\ fs = fs0
        /\ map_writes = <<>>
        /\ calls.keypair = 0 /\ calls.transform = 0
        /\ pc = "exited" => exit_code = <<ExitPanic>> /\ Len(stderr) = 1

\* C6 witness: a run on a challenge of the wrong length has failed.
C6_Witness ==
    /\ WrongLength
    /\ pc = "exited"
    /\ exit_code = <<ExitPanic>>

\* The run has the wrong number of arguments, no challenge, or a response path
\* that exists.
BadInvocation ==
    \/ ~TwoPaths
    \/ ~fs0[args[2]].exists
    \/ fs0[args[3]].exists

\* C7: on a wrong argument count, a missing challenge or an existing response
\* path, the process never exits with 0 (usage status for the argument count,
\* panic status otherwise) and never gets past the creation of the response,
\* every file stays as it was, nothing is written through a map, keypair and
\* transform are not invoked, and the process can always take its next step
\* until it has exited (at the beacon block the step is the block itself).
C7_BadInvocationFails ==
    BadInvocation =>
        /\ fs = fs0
        /\ map_writes = <<>>
        /\ synced = <<>>
        /\ calls.keypair = 0 /\ calls.transform = 0
        /\ pubkey = <<>> /\ privkey = <<>>
        /\ pc = "exited" =>
              exit_code = IF TwoPaths THEN <<ExitPanic>> ELSE <<ExitUsage>>
        /\ pc \in {"set_len", "map_response", "hash_challenge", "write_hash",
                   "flush_hash", "keypair", "transform_call", "transform",
                   "write_pubkey", "make_read_only", "hash_response", "print_result"}
              => FALSE
        /\ pc \notin {"exited", "killed", "beacon"} => ENABLED Run

\* C7 witness: a well-formed challenge and a response path that exists; the
\* run has failed and the old response is as it was.
C7_Witness ==
    /\ TwoPaths
    /\ fs0[args[2]].exists
    /\ Len(ChallengeContent) = ACCUMULATOR_BYTE_SIZE
    /\ fs0[args[3]].exists
    /\ pc = "exited"
    /\ fs[args[3]] = fs0[args[3]]

\* C8: keypair is invoked at most once, and once before transform; the public
\* key's proofs are bound to the digest of the whole challenge content, which
\* is the content of the map transform reads; the private key is the one drawn
\* from the generator seeded by the final beacon digest; every element
\* transform writes is made with that private key from the challenge's
\* element, and the public key written is the one of that private key.
C8_KeypairBinding ==
    /\ calls.keypair <= 1
    /\ calls.transform <= calls.keypair
    /\ pc \in {"transform_call", "transform", "write_pubkey", "make_read_only",
               "hash_response", "print_result"}
          => calls.keypair = 1 /\ pubkey # <<>> /\ privkey # <<>>
    /\ pubkey # <<>> =>
          /\ privkey = <<BeaconKey>>
          /\ pubkey[1].of = privkey[1]
          /\ pubkey[1].transcript = calculate_hash(ChallengeContent)
          /\ readable_map = <<args[2]>>
          /\ Mapped(readable_map) = ChallengeContent
    /\ \A k \in 1..Len(map_writes) :
          LET w == map_writes[k]
          IN  /\ w.what = "chunk" =>
                    \A c \in 1..Len(w.data) :
                        /\ w.data[c][2].key = BeaconKey
                        /\ w.data[c][2].from = InputElem(ChallengeContent, w.data[c][2].idx)
              /\ w.what = "pubkey" =>
                    w.data = PubKeySlice([of |-> BeaconKey,
                                          transcript |-> calculate_hash(ChallengeContent)])

\* C8 witness: a contribution was written with the key and its public key.
C8_Witness ==
    /\ calls.keypair = 1
    /\ Writes("chunk") # <<>>
    /\ Writes("pubkey") # <<>>
    /\ pc = "make_read_only"

\* C9 (as claimed): from its creation onward the response file has exactly the
\* required length.
C9_FullLengthFromCreation ==
    ResponseCreated => Len(fs[args[3]].content) = CONTRIBUTION_BYTE_SIZE

\* C9 (amended): the response file this run created is empty until set_len has
\* succeeded and has exactly CONTRIBUTION_BYTE_SIZE cells from then on, in
\* every state, killed or failed ones included; nothing is written to it before
\* it has that length; and it is complete (no cell left zero) only once the
\* public key has been written, so a run that stopped before that leaves a
\* file of the full length whose content is partial.
C9_LengthFromSetLen ==
    ResponseCreated =>
        LET content == fs[args[3]].content
        IN  /\ Len(content) \in {0, CONTRIBUTION_BYTE_SIZE}
            /\ Len(content) = 0 =>
                  /\ map_writes = <<>>
                  /\ pc \in {"set_len", "unwind", "exited", "killed"}
                  /\ exit_code # <<0>>
            /\ pc \in {"map_response", "hash_challenge", "write_hash", "flush_hash",
                       "keypair", "transform_call", "transform", "write_pubkey",
                       "make_read_only", "hash_response", "print_result"}
                  => Len(content) = CONTRIBUTION_BYTE_SIZE
            /\ map_writes # <<>> => Len(content) = CONTRIBUTION_BYTE_SIZE
            /\ Len(content) = CONTRIBUTION_BYTE_SIZE /\ Writes("pubkey") = <<>> =>
                  \A k \in (CONTRIBUTION_BYTE_SIZE - PUBLIC_KEY_SIZE + 1)
                             ..CONTRIBUTION_BYTE_SIZE : content[k] = ZeroCell
            /\ Writes("pubkey") # <<>> =>
                  \A k \in 1..CONTRIBUTION_BYTE_SIZE : content[k] # ZeroCell
            /\ exit_code = <<0>> => Writes("pubkey") # <<>>

\* C9 witness: a killed run left a response of the full length with the hash
\* and a chunk in it and no public key.
C9_Witness ==
    /\ ResponseCreated
    /\ pc = "killed"
    /\ Len(fs[args[3]].content) = CONTRIBUTION_BYTE_SIZE
    /\ Writes("chunk") # <<>>
    /\ Writes("pubkey") = <<>>
    /\ fs[args[3]].content[CONTRIBUTION_BYTE_SIZE] = ZeroCell

\* C10: the first write ever made through the response map is the challenge's
\* hash at offset 0; before keypair is invoked (and so before transform) that
\* hash is in the file and in its flushed image, and it stays there; it is the
\* digest the public key is bound to.
C10_HashWrittenFirst ==
    LET slice == HashSlice(calculate_hash(ChallengeContent))
    IN  /\ map_writes # <<>> =>
              map_writes[1] = [what |-> "hash", off |-> 0, data |-> slice]
        /\ pc = "keypair" \/ calls.keypair > 0 \/ calls.transform > 0 =>
              /\ map_writes # <<>>
              /\ SubSeq(fs[args[3]].content, 1, HashCells) = slice
              /\ synced # <<>>
              /\ SubSeq(synced[1], 1, HashCells) = slice
        /\ pubkey # <<>> => HashSlice(pubkey[1].transcript) = map_writes[1].data

\* C10 witness: transform is writing and the flushed hash is in place.
C10_Witness ==
    /\ pc = "transform"
    /\ chunk > 0
    /\ synced # <<>>
    /\ synced[1][1] = <<"hash", calculate_hash(ChallengeContent), 1>>

====
